---- MODULE Spec2Model ----
(***************************************************************************)
(* Model of the TCP transport link module of the Athena forwarder          *)
(* (ccnx/forwarder/athena/athena_TransportLinkModuleTCP.c).                *)
(*                                                                         *)
(* The module's state is: the process' descriptor table and the sockets    *)
(* behind it (the kernel, as far as the module's system calls observe it), *)
(* the heap of _TCPLinkData private state, the Links of the framework, and *)
(* for every Link the position of its running handler (_TCPSend,           *)
(* _TCPReceive) with that handler's locals.                                *)
(***************************************************************************)
EXTENDS Integers, Sequences, FiniteSets, TLC

\* ----------------------------------------------------------------- bounds
MaxFd == 3              \* size of the descriptor table
FixedHeaderLength == 2  \* ccnxCodecTlvPacket_MinimalHeaderLength(), scaled down
TrashSize == 2          \* sizeof(trash), MAXPATHLEN scaled down
MaxSends == 2           \* _TCPSend calls in a run
MaxFaults == 1          \* system calls in a run that fail for an outside reason
                        \* or peek a header that has not wholly arrived
StatsModulus == 4       \* receive_ReadHeaderFailure wraps at SIZE_MAX + 1, scaled down
MaxPending == 2         \* connections waiting on a listener for accept
MaxSegments == 2        \* path segments of a connection URI

ListenerBacklog == 16   \* static int _listenerBacklog

FDs == 1..MaxFd
LDs == 1..(MaxFd + 1)   \* slots for _TCPLinkData: one more than descriptors,
                        \* a handler allocates its private data first
Links == 1..MaxFd
Ports == {9695}           \* the port of tcp://127.0.0.1:9695

VARIABLES
    sock,    \* descriptor table: fd -> socket (kernel side)
    heap,    \* _TCPLinkData objects: slot -> record
    links,   \* AthenaTransportLink objects exposed to the framework
    ret,     \* what the last lifecycle operation did and returned
    open,    \* the last _TCPOpen call: its URI and what it returned
    pc,      \* per Link: where its running _TCPSend / _TCPReceive stands
    loc,     \* per Link: the locals of that handler
    call,    \* per Link: record of its current (or last) handler call
    wire,    \* per Link: every byte the peer's _TCPSend calls wrote to it
    frames,  \* per Link: the peer's _TCPSend calls, as frames of wire
    rcvd,    \* per Link: number of bytes it has consumed from its socket
    sends,   \* number of _TCPSend calls so far
    faults   \* number of system calls that failed for an outside reason

lifevars == <<sock, heap, links, ret>>
iovars == <<pc, loc, call, wire, frames, rcvd, sends, faults>>
vars == <<sock, heap, links, ret, open, pc, loc, call, wire, frames, rcvd, sends, faults>>

\* -------------------------------------------------------------- addresses
\* A sockaddr_in: host and port.  NoAddress is the cleared one of a fresh
\* _TCPLinkData, whose length is 0.
Address(host, port) == [host |-> host, port |-> port]

NoAddress == Address("", 0)

Loopback == "127.0.0.1"

\* the addresses of this host: bind accepts no other
LocalHosts == {Loopback, "10.0.0.1"}

\* The local end the kernel gives the connection of descriptor fd to host:
\* the address of the interface that reaches host, and a port of its own.
LocalAddressFor(host, fd) ==
    Address(IF host = Loopback THEN Loopback ELSE "10.0.0.1", 49152 + fd)

\* ------------------------------------------------------------- the kernel
\* A pending connection of a listening socket: the connecting descriptor
\* (0 once it has been closed) and the bytes it has already written.
ClosedSock == [st |-> "closed", port |-> 0, peer |-> 0, rcvq |-> <<>>,
               fin |-> FALSE, backlog |-> <<>>, nonblock |-> FALSE]

HasFreeFd(s) == \E fd \in FDs : s[fd].st = "closed"

\* socket(2), accept(2): the lowest descriptor not in use
LowestFreeFd(s) ==
    CHOOSE fd \in FDs : s[fd].st = "closed" /\ \A g \in FDs : g < fd => s[g].st # "closed"

Listening(s, port) == \E fd \in FDs : s[fd].st = "listen" /\ s[fd].port = port

ListenerOn(s, port) == CHOOSE fd \in FDs : s[fd].st = "listen" /\ s[fd].port = port

\* the pending connections of listener q with descriptor fd forgotten
DropClient(q, fd) ==
    [i \in 1..Len(q) |-> IF q[i].client = fd THEN [q[i] EXCEPT !.client = 0] ELSE q[i]]

\* close(2) of an open descriptor: the peer sees end of stream after the
\* bytes already written; connections pending on a closed listener are reset.
KClose(s, fd) ==
    [g \in FDs |->
        IF g = fd THEN ClosedSock
        ELSE IF s[g].st = "conn" /\ s[g].peer = fd
                THEN [s[g] EXCEPT !.peer = 0, !.fin = TRUE]
        ELSE IF s[g].st = "conn" /\ s[fd].st = "listen"
                /\ \E i \in 1..Len(s[fd].backlog) : s[fd].backlog[i].client = g
                THEN [s[g] EXCEPT !.fin = TRUE]
        ELSE IF s[g].st = "listen"
                THEN [s[g] EXCEPT !.backlog = DropClient(s[g].backlog, fd)]
        ELSE s[g]]

\* connect(2) of descriptor fd to the listener on port: the connection is
\* established by the kernel and waits in the listener's queue for accept.
KConnect(s, fd, port) ==
    LET lfd == ListenerOn(s, port) IN
    [s EXCEPT ![fd] = [@ EXCEPT !.st = "conn"],
              ![lfd] = [@ EXCEPT !.backlog = Append(@, [client |-> fd, data |-> <<>>])]]

\* accept(2) that hands out the first pending connection and drops the rest
KAccept_DropPending(s, lfd) ==
    LET e == Head(s[lfd].backlog)
        nfd == LowestFreeFd(s)
        s1 == [s EXCEPT ![lfd] = [@ EXCEPT !.backlog = <<>>],
                        ![nfd] = [ClosedSock EXCEPT !.st = "conn", !.peer = e.client,
                                                    !.rcvq = e.data,
                                                    !.fin = (e.client = 0)]]
    IN IF e.client = 0 THEN s1
       ELSE [s1 EXCEPT ![e.client] = [@ EXCEPT !.peer = nfd]]

\* accept(2) on listener lfd: a new descriptor for the first pending connection
KAccept(s, lfd) ==
    LET e == Head(s[lfd].backlog)
        nfd == LowestFreeFd(s)
        s1 == [s EXCEPT ![lfd] = [@ EXCEPT !.backlog = Tail(@)],
                        ![nfd] = [ClosedSock EXCEPT !.st = "conn", !.peer = e.client,
                                                    !.rcvq = e.data,
                                                    !.fin = (e.client = 0)]]
    IN IF e.client = 0 THEN s1
       ELSE [s1 EXCEPT ![e.client] = [@ EXCEPT !.peer = nfd]]

\* ------------------------------------------------- private data of a link
ZeroStats == [receive_ReadHeaderFailure |-> 0, receive_BadMessageLength |-> 0,
              receive_ReadError |-> 0, receive_ReadWouldBlock |-> 0,
              receive_ShortRead |-> 0, receive_ShortWrite |-> 0,
              receive_DecodeFailed |-> 0]

FreeData == [alloc |-> FALSE, fd |-> -1, stats |-> ZeroStats,
             myAddress |-> NoAddress, peerAddress |-> NoAddress]

\* _TCPLinkData_Create: a cleared object in a free slot
NewDataSlot(h) == CHOOSE d \in LDs : ~h[d].alloc /\ \A e \in LDs : e < d => h[e].alloc

TCPLinkData_Create(h, d) == [h EXCEPT ![d] = [FreeData EXCEPT !.alloc = TRUE]]

\* _TCPLinkData_Destroy
TCPLinkData_Destroy(h, d) == [h EXCEPT ![d] = FreeData]

\* ---------------------------------------------------------------- links
NoLink == [live |-> FALSE, kind |-> "none", data |-> 0, eventFd |-> -1,
           events |-> {}, routable |-> FALSE, send |-> "NULL", receive |-> "NULL",
           name |-> <<>>, local |-> FALSE, forceLocal |-> "none"]

NewLinkSlot(ls) == CHOOSE l \in Links : ~ls[l].live /\ \A k \in Links : k < l => ls[k].live

LinkFd(l) == heap[links[l].data].fd

LiveLinks == {l \in Links : links[l].live}

\* the Links the forwarder may pick to carry a forwarded message
RoutableLinks == {l \in LiveLinks : links[l].routable}

\* linkName == NULL
NullName == <<>>

\* getnameinfo(NI_NUMERICSERV) on a sockaddr: host and service as strings,
\* or nothing when the lookup fails, as it does on a cleared address of
\* length 0 and when fails says so
GetNameInfo(addr, fails) ==
    IF addr = NoAddress \/ fails THEN <<>> ELSE <<addr.host, ToString(addr.port)>>

\* the getnameinfo calls of one _createNameFromLinkData that fail for a
\* reason outside the module
Lookups == [myFails : BOOLEAN, peerFails : BOOLEAN]

LookupsOK == [myFails |-> FALSE, peerFails |-> FALSE]

\* _createNameFromLinkData with the two forms exchanged
CreateNameFromLinkData_Swapped(data, lookup) ==
    LET my == GetNameInfo(data.myAddress, lookup.myFails)
        peer == GetNameInfo(data.peerAddress, lookup.peerFails)
    IN IF peer # <<>> /\ my # <<>>
       THEN <<"tcp", "://", my[1], ":", my[2]>>
       ELSE IF my # <<>>
       THEN <<"tcp", "://", my[1], ":", my[2], "<->", my[1], ":", my[2]>>
       ELSE <<"tcp", "://", "Unknown">>

\* _createNameFromLinkData: the pieces sprintf puts one after the other
CreateNameFromLinkData(data, lookup) ==
    LET my == GetNameInfo(data.myAddress, lookup.myFails)
        peer == GetNameInfo(data.peerAddress, lookup.peerFails)
    IN IF peer # <<>> /\ my # <<>>
       THEN <<"tcp", "://", my[1], ":", my[2], "<->", peer[1], ":", peer[2]>>
       ELSE IF my # <<>>
       THEN <<"tcp", "://", my[1], ":", my[2]>>
       ELSE <<"tcp", "://", "Unknown">>

\* _setConnectLinkState: peerAddress.sin_addr.s_addr == myAddress.sin_addr.s_addr
IsLocalByAddress(data) == data.peerAddress.host = data.myAddress.host

\* athenaTransportLink_Create / athenaTransportLink_Clone with the send and
\* receive operations of a connection, followed by _setConnectLinkState:
\* private data, polled descriptor, SetLocal(isLocal), Send event
ConnLink(d, fd, name, isLocal) ==
    [live |-> TRUE, kind |-> "conn", data |-> d, eventFd |-> fd,
     events |-> {"Send"}, routable |-> TRUE,
     send |-> "_TCPSend", receive |-> "_TCPReceive",
     name |-> name, local |-> isLocal, forceLocal |-> "none"]

\* the listener's Link left routable, as athenaTransportLink_Create makes it
ListenerLink_Routable(d, fd, name) ==
    [live |-> TRUE, kind |-> "listener", data |-> d, eventFd |-> fd,
     events |-> {}, routable |-> TRUE,
     send |-> "NULL", receive |-> "_TCPReceiveListener",
     name |-> name, local |-> FALSE, forceLocal |-> "none"]

\* athenaTransportLink_Create with no send operation and the accept handler
\* as receive operation, then athenaTransportLink_SetRoutable(link, false)
ListenerLink(d, fd, name) ==
    [live |-> TRUE, kind |-> "listener", data |-> d, eventFd |-> fd,
     events |-> {}, routable |-> FALSE,
     send |-> "NULL", receive |-> "_TCPReceiveListener",
     name |-> name, local |-> FALSE, forceLocal |-> "none"]

\* athenaTransportLink_ForceLocal(link, forceLocal) of the framework
ForceLocal(link, forceLocal) == [link EXCEPT !.forceLocal = forceLocal]

\* athenaTransportLink_IsLocal of the framework: the forced classification
\* when there is one, else the one _setConnectLinkState computed
IsLocal(link) ==
    IF link.forceLocal = "ForcedLocal" THEN TRUE
    ELSE IF link.forceLocal = "ForcedNonLocal" THEN FALSE
    ELSE link.local

\* ------------------------------------------------------------- messages
\* The fixed header of the codec: a version byte, the total packet length,
\* then padding up to the fixed header length.
Header(ver, len) == <<ver, len>> \o [i \in 1..(FixedHeaderLength - 2) |-> 0]

\* the packet length taken from the version field of the header
GetPacketLength_VersionField(buf) == buf[1]

\* ccnxCodecTlvPacket_GetPacketLength: the length field of a peeked header
GetPacketLength(buf) == buf[2]

NullMessage == [kind |-> "null", segs |-> <<>>]

\* ccnxMetaMessage_CreateFromWireFormatBuffer: a message over the bytes
\* read, NULL when the codec does not know the version
CreateFromWireFormatBuffer(buf) ==
    IF buf[1] = 1 THEN [kind |-> "buffer", segs |-> <<buf>>] ELSE NullMessage

RECURSIVE Concat(_)
Concat(segs) == IF segs = <<>> THEN <<>> ELSE Head(segs) \o Concat(Tail(segs))

\* The wire buffer _TCPSend writes: the message's own buffer, its single
\* io vector wrapped, or its io vectors copied one after the other.
WireFormatBuffer(m) ==
    IF m.kind = "buffer" THEN m.segs[1]
    ELSE IF Len(m.segs) = 1 THEN m.segs[1]
    ELSE Concat(m.segs)

\* The messages the forwarder hands to _TCPSend in this model
MsgHeaderOnly == [kind |-> "iovec", segs |-> <<Header(1, FixedHeaderLength)>>]
MsgIoVec == [kind |-> "iovec",
             segs |-> <<Header(1, FixedHeaderLength + 2), <<7, FixedHeaderLength>>>>]
MsgBadLength == [kind |-> "buffer", segs |-> <<Header(1, 1) \o <<5>>>>]
MsgBadVersion == [kind |-> "buffer", segs |-> <<Header(9, FixedHeaderLength)>>]

Messages == {MsgHeaderOnly, MsgIoVec, MsgBadLength, MsgBadVersion}

\* a frame the codec encoded: it declares its own length and decodes
ValidFrame(m) ==
    LET b == WireFormatBuffer(m) IN b[1] = 1 /\ GetPacketLength(b) = Len(b)

\* ------------------------------------------------------- handler records
\* the locals of a handler: buffer, messageLength, the read or write count,
\* and the number of references the call holds on its wire buffer
NoLoc == [buf |-> <<>>, len |-> 0, cnt |-> 0, refs |-> 0]

\* parcBuffer_Allocate, parcBuffer_Wrap, parcBuffer_Acquire: the call holds
\* one more reference to its wire buffer
BufferAcquire(lc) == [lc EXCEPT !.refs = @ + 1]

\* a return that leaves the wire buffer without releasing it
BufferRelease_Missing(lc) == [NoLoc EXCEPT !.refs = lc.refs]

\* parcBuffer_Release(&wireFormatBuffer) and the return that follows it:
\* one reference less, the locals are gone
BufferRelease(lc) == [NoLoc EXCEPT !.refs = lc.refs - 1]

NoEof == [closed |-> FALSE, queued |-> 0, poll |-> "none", peek |-> "none"]

NoCall == [op |-> "none", outcome |-> "none", result |-> 0, msg |-> NullMessage,
           start |-> 0, events0 |-> {}, stats0 |-> ZeroStats, wrote |-> <<>>,
           short |-> FALSE, errno |-> "none", buffered |-> 0, eof |-> NoEof]

\* What a lifecycle operation did: the first call that failed, the Link, the
\* descriptor and the private data it worked on, the message it returned
\* (these operations return none), and for an accept the number of pending
\* connections it took and of Links it registered.
Ret(op, step, l, fd, d) ==
    [op |-> op, step |-> step, link |-> l, fd |-> fd, data |-> d,
     msg |-> NullMessage, taken |-> 0, added |-> 0]

\* The record of a _TCPOpen call: the URI it was given, errno where it set
\* it, the opener it called, the Link it returned (0: NULL), the number of
\* sockets it created and the name lookups that failed in it.
NoOpen == [uri |-> [host |-> "", port |-> 0, path |-> <<>>], errno |-> "none",
           called |-> "none", result |-> 0, created |-> 0, lookup |-> LookupsOK]

Init ==
    /\ sock = [fd \in FDs |-> ClosedSock]
    /\ heap = [d \in LDs |-> FreeData]
    /\ links = [l \in Links |-> NoLink]
    /\ ret = Ret("none", "none", 0, -1, 0)
    /\ open = NoOpen
    /\ pc = [l \in Links |-> "idle"]
    /\ loc = [l \in Links |-> NoLoc]
    /\ call = [l \in Links |-> NoCall]
    /\ wire = [l \in Links |-> <<>>]
    /\ frames = [l \in Links |-> <<>>]
    /\ rcvd = [l \in Links |-> 0]
    /\ sends = 0
    /\ faults = 0


\* ------------------------------------------------------- link lifecycle
\* what an open leaves: descriptor table, heap, Links and its own record
After(s, h, ls, r) == [sock |-> s, heap |-> h, links |-> ls, ret |-> r]

Apply(r) == sock' = r.sock /\ heap' = r.heap /\ links' = r.links /\ ret' = r.ret

\* _TCPOpenConnection.  step names the first call that fails ("ok": none):
\* socket, connect, _setSocketOptions, getsockname, athenaTransportLink_Create.
OpenConnectionSteps == {"socket", "connect", "sockopt", "getsockname", "create", "ok"}

\* What the kernel allows: a descriptor must be free for socket to succeed,
\* and connect reaches a listener of this host only if there is one with
\* room in its queue, of which a run fills at most MaxPending places (a peer
\* on another host is outside the model and may accept or refuse).
OpenConnectionEnabled(address, port, step) ==
    /\ step \in OpenConnectionSteps
    /\ (step # "socket") => HasFreeFd(sock)
    /\ (step \notin {"socket", "connect"} /\ address = Loopback) =>
            /\ Listening(sock, port)
            /\ Len(sock[ListenerOn(sock, port)].backlog) < ListenerBacklog
            /\ Len(sock[ListenerOn(sock, port)].backlog) < MaxPending

OpenConnectionResult(linkName, address, port, lookup, step) ==
    LET d == NewDataSlot(heap)
        fd == LowestFreeFd(sock)
        l == NewLinkSlot(links)
        h1 == TCPLinkData_Create(heap, d)
        s1 == [sock EXCEPT ![fd] = [ClosedSock EXCEPT !.st = "open"]]
        s2 == IF address = Loopback THEN KConnect(s1, fd, port)
              ELSE [s1 EXCEPT ![fd] = [@ EXCEPT !.st = "conn"]]
        data == [h1[d] EXCEPT !.fd = fd,
                              !.peerAddress = Address(address, port),
                              !.myAddress = LocalAddressFor(address, fd)]
        derivedLinkName == CreateNameFromLinkData(data, lookup)
        name == IF linkName = NullName THEN derivedLinkName ELSE linkName
    IN
    CASE step = "socket" ->
           \* linkData->fd < 0: destroy, return NULL
           After(sock, TCPLinkData_Destroy(h1, d), links,
                 Ret("OpenConnection", step, 0, -1, d))
      [] step = "connect" ->
           \* connect error: destroy, return NULL (the descriptor is not closed)
           After(s1, TCPLinkData_Destroy(h1, d), links,
                 Ret("OpenConnection", step, 0, fd, d))
      [] step = "sockopt" ->
           \* _setSocketOptions failed: close, destroy, return NULL
           After(KClose(s2, fd), TCPLinkData_Destroy(h1, d), links,
                 Ret("OpenConnection", step, 0, fd, d))
      [] step = "getsockname" ->
           \* getsockname failed: destroy, return NULL (the descriptor is not closed)
           After(s2, TCPLinkData_Destroy(h1, d), links,
                 Ret("OpenConnection", step, 0, fd, d))
      [] step = "create" ->
           \* athenaTransportLink_Create returned NULL: destroy, return NULL
           After(s2, TCPLinkData_Destroy(h1, d), links,
                 Ret("OpenConnection", step, 0, fd, d))
      [] step = "ok" ->
           After(s2, [h1 EXCEPT ![d] = data],
                 [links EXCEPT ![l] = ConnLink(d, fd, name, IsLocalByAddress(data))],
                 Ret("OpenConnection", step, l, fd, d))

\* _TCPOpenConnection to the listener of this host on port, with no name given
TCPOpenConnection(port, step) ==
    /\ OpenConnectionEnabled(Loopback, port, step)
    /\ LET r == OpenConnectionResult(NullName, Loopback, port, LookupsOK, step)
       IN Apply(r)
    /\ UNCHANGED <<iovars, open>>

\* _TCPOpenListener.  step names the first call that fails: socket,
\* _setSocketOptions, fcntl(F_GETFL), fcntl(F_SETFL), bind, listen,
\* athenaTransportLink_Create.
OpenListenerSteps ==
    {"socket", "sockopt", "fcntlget", "fcntlset", "bind", "listen", "create", "ok"}

\* What the kernel allows: a descriptor must be free for socket to succeed,
\* and bind succeeds only on an address of this host and a port no listener
\* holds.
OpenListenerEnabled(address, port, step) ==
    /\ step \in OpenListenerSteps
    /\ (step # "socket") => HasFreeFd(sock)
    /\ (step \in {"listen", "create", "ok"}) =>
            (address \in LocalHosts /\ ~Listening(sock, port))

\* a passive open that forgets close(linkData->fd) when bind fails
ListenerFailureClose_NotOnBind(s1, s2, fd, step) ==
    IF step = "bind" THEN s1
    ELSE KClose(IF step = "create" THEN s2 ELSE s1, fd)

\* close(linkData->fd) on a failure path of _TCPOpenListener after socket():
\* the descriptor is still unbound (s1) unless bind and listen were done (s2)
ListenerFailureClose(s1, s2, fd, step) ==
    KClose(IF step = "create" THEN s2 ELSE s1, fd)

OpenListenerResult(linkName, address, port, lookup, step) ==
    LET d == NewDataSlot(heap)
        fd == LowestFreeFd(sock)
        l == NewLinkSlot(links)
        h1 == TCPLinkData_Create(heap, d)
        s1 == [sock EXCEPT ![fd] = [ClosedSock EXCEPT !.st = "open"]]
        s2 == [s1 EXCEPT ![fd] = [@ EXCEPT !.st = "listen", !.port = port,
                                            !.nonblock = TRUE]]
        data == [h1[d] EXCEPT !.fd = fd, !.myAddress = Address(address, port)]
        derivedLinkName == CreateNameFromLinkData(data, lookup)
        name == IF linkName = NullName THEN derivedLinkName ELSE linkName
    IN
    IF step = "socket"
    THEN After(sock, TCPLinkData_Destroy(h1, d), links,
               Ret("OpenListener", step, 0, -1, d))
    ELSE IF step # "ok"
    THEN \* every later failure: close(linkData->fd), destroy, return NULL
         After(ListenerFailureClose(s1, s2, fd, step),
               TCPLinkData_Destroy(h1, d), links,
               Ret("OpenListener", step, 0, fd, d))
    ELSE After(s2, [h1 EXCEPT ![d] = data],
               [links EXCEPT ![l] = ListenerLink(d, fd, name)],
               Ret("OpenListener", step, l, fd, d))

\* _TCPOpenListener on an address of this host, with no name given
TCPOpenListener(port, step) ==
    /\ OpenListenerEnabled(Loopback, port, step)
    /\ LET r == OpenListenerResult(NullName, Loopback, port, LookupsOK, step)
       IN Apply(r)
    /\ UNCHANGED <<iovars, open>>

\* ---------------------------------------------------------------- _TCPOpen
\* A C string is the sequence of its characters.
LowerCase ==
    [A |-> "a", B |-> "b", C |-> "c", D |-> "d", E |-> "e", F |-> "f", G |-> "g",
     H |-> "h", I |-> "i", J |-> "j", K |-> "k", L |-> "l", M |-> "m", N |-> "n",
     O |-> "o", P |-> "p", Q |-> "q", R |-> "r", S |-> "s", T |-> "t", U |-> "u",
     V |-> "v", W |-> "w", X |-> "x", Y |-> "y", Z |-> "z"]

ToLower(c) == IF c \in DOMAIN LowerCase THEN LowerCase[c] ELSE c

\* the character strcasecmp compares at position i: NUL past the end
CharAt(str, i) == IF i <= Len(str) THEN ToLower(str[i]) ELSE "NUL"

\* strcasecmp(a, b) == 0
StrCaseCmp(a, b) == Len(a) = Len(b) /\ \A i \in 1..Len(a) : CharAt(a, i) = CharAt(b, i)

\* strncasecmp(a, b, n) == 0: the first n characters agree, or both strings
\* end before
StrNCaseCmp(a, b, n) == \A i \in 1..n : CharAt(a, i) = CharAt(b, i)

TCP_LISTENER_FLAG == <<"l", "i", "s", "t", "e", "n", "e", "r">>
LINK_NAME_SPECIFIER == <<"n", "a", "m", "e", "%", "3", "D">>
LOCAL_LINK_FLAG == <<"l", "o", "c", "a", "l", "%", "3", "D">>

\* the number of leading characters of str that are not in stop
Span(str, stop) ==
    LET hit == {i \in 1..Len(str) : str[i] \in stop} IN
    IF hit = {} THEN Len(str)
    ELSE (CHOOSE i \in hit : \A j \in hit : i <= j) - 1

\* sscanf(token, "%*[^%%]%%3D%s", out): a run of at least one character other
\* than '%' is skipped, the characters % 3 D must follow, then white space is
\* skipped and the characters up to the next white space are stored.  The
\* result is the number of values stored, -1 when the input ends first.
Scan(token) ==
    LET k == Span(token, {"%"})
        rest == SubSeq(token, k + 1, Len(token))
        value == SubSeq(rest, 4, Len(rest))
        ws == Span(value, {c \in {value[i] : i \in 1..Len(value)} : c # " "})
        word == SubSeq(value, ws + 1, Len(value))
        out == SubSeq(word, 1, Span(word, {" "}))
    IN IF token = <<>> THEN [count |-> -1, out |-> <<>>]
       ELSE IF k = 0 THEN [count |-> 0, out |-> <<>>]
       ELSE IF rest = <<>> THEN [count |-> -1, out |-> <<>>]
       ELSE IF SubSeq(rest, 1, 3) # <<"%", "3", "D">> THEN [count |-> 0, out |-> <<>>]
       ELSE IF out = <<>> THEN [count |-> -1, out |-> <<>>]
       ELSE [count |-> 1, out |-> out]

\* the locals of _TCPOpen that the loop over the path segments sets
NoParams == [listener |-> FALSE, linkName |-> NullName, forceLocal |-> "none",
             errno |-> "none"]

\* one pass of the loop over the path segments
ParseSegment(token, st) ==
    IF StrCaseCmp(token, TCP_LISTENER_FLAG)
    THEN [st EXCEPT !.listener = TRUE]
    ELSE IF StrNCaseCmp(token, LINK_NAME_SPECIFIER, Len(LINK_NAME_SPECIFIER))
    THEN IF Scan(token).count # 1
         THEN [st EXCEPT !.errno = "EINVAL"]
         ELSE [st EXCEPT !.linkName = Scan(token).out]
    ELSE IF StrNCaseCmp(token, LOCAL_LINK_FLAG, Len(LOCAL_LINK_FLAG))
    THEN IF Scan(token).count # 1
         THEN [st EXCEPT !.errno = "EINVAL"]
         ELSE IF StrNCaseCmp(Scan(token).out, <<"f", "a", "l", "s", "e">>, 5)
         THEN [st EXCEPT !.forceLocal = "ForcedNonLocal"]
         ELSE IF StrNCaseCmp(Scan(token).out, <<"t", "r", "u", "e">>, 4)
         THEN [st EXCEPT !.forceLocal = "ForcedLocal"]
         ELSE [st EXCEPT !.errno = "EINVAL"]
    ELSE [st EXCEPT !.errno = "EINVAL"]

\* the loop over the path segments: it returns at the first bad one
RECURSIVE ParsePath(_, _)
ParsePath(path, st) ==
    IF path = <<>> \/ st.errno = "EINVAL" THEN st
    ELSE ParsePath(Tail(path), ParseSegment(Head(path), st))

\* _TCPOpen of a connection URI.  lookup and step are the outside failures
\* of the opener it calls, when it calls one.
TCPOpen(uri) ==
    \E p \in {ParsePath(uri.path, NoParams)} :
    /\ UNCHANGED iovars
    /\ IF uri.host = "" \/ p.errno = "EINVAL"
       THEN \* no authority, or a bad segment: errno = EINVAL, return NULL
            /\ UNCHANGED <<sock, heap, links, ret>>
            /\ open' = [uri |-> uri, errno |-> "EINVAL", called |-> "none",
                        result |-> 0, created |-> 0, lookup |-> LookupsOK]
       ELSE \E lookup \in Lookups, step \in OpenConnectionSteps \cup OpenListenerSteps :
            LET r == IF p.listener
                     THEN OpenListenerResult(p.linkName, uri.host, uri.port, lookup, step)
                     ELSE OpenConnectionResult(p.linkName, uri.host, uri.port, lookup, step)
                result == r.ret.link
            IN
            /\ IF p.listener THEN OpenListenerEnabled(uri.host, uri.port, step)
                             ELSE OpenConnectionEnabled(uri.host, uri.port, step)
            /\ (step \notin {"create", "ok"}) => lookup = LookupsOK
            /\ sock' = r.sock /\ heap' = r.heap /\ ret' = r.ret
            \* if (result && forceLocal) athenaTransportLink_ForceLocal(...)
            /\ links' = IF result # 0 /\ p.forceLocal # "none"
                        THEN [r.links EXCEPT ![result] = ForceLocal(@, p.forceLocal)]
                        ELSE r.links
            /\ open' = [uri |-> uri,
                        errno |-> IF step = "ok" THEN "none" ELSE "other",
                        called |-> IF p.listener THEN "_TCPOpenListener"
                                                 ELSE "_TCPOpenConnection",
                        result |-> result,
                        created |-> IF r.ret.fd = -1 THEN 0 ELSE 1,
                        lookup |-> lookup]

\* _TCPReceiveListener on listener link l.  step names the first call that
\* fails: accept, athenaTransportLink_Clone, athenaTransportLink_AddLink.
ReceiveListenerSteps == {"accept", "clone", "addlink", "ok"}

\* the record of one _TCPReceiveListener call on the listener with
\* descriptor lfd, counted on the state it leaves
ReceiveListenerRet(step, l, fd, d, lfd) ==
    [Ret("ReceiveListener", step, l, fd, d) EXCEPT
        !.taken = Len(sock[lfd].backlog) - Len(sock'[lfd].backlog),
        !.added = Cardinality({k \in Links : links'[k].live}) - Cardinality(LiveLinks)]

TCPReceiveListener(l, step) ==
    LET lfd == LinkFd(l)
        d == NewDataSlot(heap)
        nfd == LowestFreeFd(sock)
        n == NewLinkSlot(links)
        h1 == TCPLinkData_Create(heap, d)
        s1 == KAccept(sock, lfd)
        \* the peer address accept reports (the local end of the connecting
        \* descriptor; of one that is closed the model keeps no port), the
        \* local one getsockname reports
        data == [h1[d] EXCEPT !.fd = nfd,
                              !.peerAddress = LocalAddressFor(Loopback,
                                                  Head(sock[lfd].backlog).client),
                              !.myAddress = heap[links[l].data].myAddress]
        derivedLinkName == CreateNameFromLinkData(data, LookupsOK)
    IN
    /\ links[l].live /\ links[l].receive = "_TCPReceiveListener"
    /\ UNCHANGED <<iovars, open>>
    /\ step \in ReceiveListenerSteps
    /\ (step # "accept") => (HasFreeFd(sock) /\ sock[lfd].backlog # <<>>)
    /\ CASE step = "accept" ->
              \* accept returned -1: destroy, return NULL
              /\ sock' = sock
              /\ heap' = TCPLinkData_Destroy(h1, d)
              /\ links' = links
              /\ ret' = ReceiveListenerRet(step, 0, -1, d, lfd)
         [] step = "clone" ->
              \* athenaTransportLink_Clone returned NULL: destroy, return NULL
              \* (the accepted descriptor is not closed)
              /\ sock' = s1
              /\ heap' = TCPLinkData_Destroy(h1, d)
              /\ links' = links
              /\ ret' = ReceiveListenerRet(step, 0, nfd, d, lfd)
         [] step = "addlink" ->
              \* AddLink returned -1: close, destroy, release the new link
              /\ sock' = KClose(s1, nfd)
              /\ heap' = TCPLinkData_Destroy([h1 EXCEPT ![d].fd = nfd], d)
              /\ links' = links
              /\ ret' = ReceiveListenerRet(step, 0, nfd, d, lfd)
         [] step = "ok" ->
              /\ sock' = s1
              /\ heap' = [h1 EXCEPT ![d] = data]
              /\ links' = [links EXCEPT ![n] =
                              ConnLink(d, nfd, derivedLinkName, IsLocalByAddress(data))]
              /\ ret' = ReceiveListenerRet(step, n, nfd, d, lfd)

\* _TCPClose without its close(linkData->fd)
TCPClose_NoClose(l) ==
    LET d == links[l].data
        fd == heap[d].fd
    IN
    /\ links[l].live /\ pc[l] = "idle"
    /\ UNCHANGED <<iovars, open>>
    /\ sock' = sock
    /\ heap' = TCPLinkData_Destroy(heap, d)
    /\ links' = [links EXCEPT ![l] = NoLink]
    /\ ret' = Ret("Close", "ok", l, fd, d)

\* _TCPClose, run by the framework's athenaTransportLink_Close, which then
\* drops the Link.
TCPClose(l) ==
    LET d == links[l].data
        fd == heap[d].fd
    IN
    /\ links[l].live /\ pc[l] = "idle"
    /\ UNCHANGED <<iovars, open>>
    /\ sock' = KClose(sock, fd)
    /\ heap' = TCPLinkData_Destroy(heap, d)
    /\ links' = [links EXCEPT ![l] = NoLink]
    /\ ret' = Ret("Close", "ok", l, fd, d)

\* ------------------------------------------------------------ socket I/O
\* send(2) of bytes on descriptor fd: they are queued on the peer's socket
\* (the connection is a loopback one), or on the pending connection while
\* the peer has not accepted; a peer that is gone receives nothing.
KSend(s, fd, bytes) ==
    IF s[fd].peer # 0
    THEN [s EXCEPT ![s[fd].peer] = [@ EXCEPT !.rcvq = @ \o bytes]]
    ELSE [g \in FDs |->
            IF s[g].st = "listen"
            THEN [s[g] EXCEPT !.backlog =
                    [i \in 1..Len(s[g].backlog) |->
                        IF s[g].backlog[i].client = fd
                        THEN [s[g].backlog[i] EXCEPT !.data = @ \o bytes]
                        ELSE s[g].backlog[i]]]
            ELSE s[g]]

\* read(2) / recv(2) of up to n bytes: what is queued, nothing when the
\* queue is empty ("a zero read means either no more data is available or
\* our peer has hungup")
KReadCount(s, fd, n) == IF Len(s[fd].rcvq) < n THEN Len(s[fd].rcvq) ELSE n

KConsume(s, fd, n) == [s EXCEPT ![fd] = [@ EXCEPT !.rcvq = SubSeq(@, n + 1, Len(@))]]

\* read(2) on a descriptor without O_NONBLOCK waits while nothing is queued
\* and the peer has not closed
ReadWaits(s, fd) == s[fd].rcvq = <<>> /\ ~s[fd].fin /\ ~s[fd].nonblock

\* poll(2) with POLLIN reports data or end of stream
Readable(s, fd) == s[fd].rcvq # <<>> \/ s[fd].fin

\* the Link reading what Link l writes (0: none, e.g. not yet accepted)
RecvLinkOf(l) ==
    LET p == sock[LinkFd(l)].peer IN
    IF p # 0 /\ \E k \in LiveLinks : LinkFd(k) = p
    THEN CHOOSE k \in LiveLinks : LinkFd(k) = p
    ELSE 0

Stats(l) == heap[links[l].data].stats

\* a failure counted twice
Bump_Twice(h, d, counter) ==
    [h EXCEPT ![d] = [@ EXCEPT !.stats = [@ EXCEPT ![counter] = @ + 2]]]

\* counter++ on a size_t, which wraps.  The model keeps the width of the one
\* counter that a run can advance without bound (a header peek that repeats);
\* the others are bounded by the calls and the bytes of the run.
Bump(h, d, counter) ==
    [h EXCEPT ![d] = [@ EXCEPT !.stats = [@ EXCEPT ![counter] =
        IF counter = "receive_ReadHeaderFailure" THEN (@ + 1) % StatsModulus ELSE @ + 1]]]

\* the record of a handler call that starts now on Link l
NewCall(l, op, m) ==
    [NoCall EXCEPT !.op = op, !.msg = m, !.events0 = links[l].events,
                   !.stats0 = Stats(l), !.start = rcvd[l]]

\* the handler returns: its record is completed, its locals are gone
Return(l, outcome, result, m) ==
    /\ pc' = [pc EXCEPT ![l] = "idle"]
    /\ loc' = [loc EXCEPT ![l] = BufferRelease(@)]
    /\ call' = [call EXCEPT ![l] = [@ EXCEPT !.outcome = outcome, !.result = result,
                                             !.msg = m]]

\* the status of the frame the running _TCPSend of Link l is writing
SetFrameStatus(fs, r, status) ==
    IF r # 0 /\ fs[r] # <<>> /\ fs[r][Len(fs[r])].status = "pending"
    THEN [fs EXCEPT ![r] = [@ EXCEPT ![Len(@)] = [@ EXCEPT !.status = status]]]
    ELSE fs

\* -------------------------------------------------------------- _TCPSend
\* &buffer[writeCount], count bytes of it
SendSlice_FromStart(buffer, writeCount, count) == SubSeq(buffer, 1, count)

SendSlice(buffer, writeCount, count) == SubSeq(buffer, writeCount + 1, writeCount + count)

\* count == -1: the Error event is set when errno is EPIPE
SendErrorEvents(events, errno) ==
    IF errno = "EPIPE" THEN events \cup {"Error"} ELSE events

\* the short-write counter counts every write shorter than requested
ShortWriteBump_AnyShort(h, d, count, requested) ==
    IF count < requested THEN Bump(h, d, "receive_ShortWrite") ELSE h

\* count == 0: receive_ShortWrite++
ShortWriteBump(h, d, count, requested) ==
    IF count = 0 THEN Bump(h, d, "receive_ShortWrite") ELSE h

\* One pass of the write loop of the _TCPSend call c on Link l, with
\* writeCount bytes of buffer written so far: send() returns count (-1 with
\* errno), and the function returns when the write failed, wrote nothing,
\* or wrote the last byte.  fs is the frame record of the stream.
WritePass(l, buffer, writeCount, c, fs, count, errno) ==
    LET d == links[l].data
        fd == heap[d].fd
        requested == Len(buffer) - writeCount
        r == RecvLinkOf(l)
        slice == SendSlice(buffer, writeCount, count)
        isFault == (count = -1 /\ errno # "EPIPE") \/ count = 0
        \* the wire buffer is acquired, wrapped or allocated when the call starts
        lc == IF pc[l] = "idle" THEN BufferAcquire(loc[l]) ELSE loc[l]
    IN
    /\ count \in -1..requested
    /\ errno \in {"none", "EPIPE", "EIO"}
    /\ (count = -1) <=> (errno # "none")
    /\ (errno = "EPIPE") => sock[fd].fin
    /\ isFault => faults < MaxFaults
    /\ faults' = IF isFault THEN faults + 1 ELSE faults
    /\ UNCHANGED <<ret, open, rcvd>>
    /\ heap' = ShortWriteBump(heap, d, count, requested)
    /\ IF count <= 0
       THEN /\ links' = IF count = -1
                        THEN [links EXCEPT ![l] =
                                [@ EXCEPT !.events = SendErrorEvents(@, errno)]]
                        ELSE links
            /\ sock' = sock
            /\ wire' = wire
            /\ frames' = SetFrameStatus(fs, r, "fail")
            /\ pc' = [pc EXCEPT ![l] = "idle"]
            /\ loc' = [loc EXCEPT ![l] = BufferRelease(lc)]
            /\ call' = [call EXCEPT ![l] =
                          [c EXCEPT !.outcome = IF count = -1 THEN "writeError" ELSE "zeroWrite",
                                    !.result = -1, !.errno = errno]]
       ELSE /\ links' = links
            /\ sock' = KSend(sock, fd, slice)
            /\ wire' = IF r = 0 THEN wire ELSE [wire EXCEPT ![r] = @ \o slice]
            /\ IF writeCount + count < Len(buffer)
               THEN /\ pc' = [pc EXCEPT ![l] = "send"]
                    /\ loc' = [loc EXCEPT ![l] = [lc EXCEPT !.buf = buffer,
                                                               !.len = Len(buffer),
                                                               !.cnt = writeCount + count]]
                    /\ frames' = fs
                    /\ call' = [call EXCEPT ![l] =
                                  [c EXCEPT !.wrote = @ \o slice, !.short = TRUE]]
               ELSE /\ pc' = [pc EXCEPT ![l] = "idle"]
                    /\ loc' = [loc EXCEPT ![l] = BufferRelease(lc)]
                    /\ frames' = SetFrameStatus(fs, r, "ok")
                    /\ call' = [call EXCEPT ![l] =
                                  [c EXCEPT !.wrote = @ \o slice, !.outcome = "ok",
                                            !.result = 0]]

\* _TCPSend of message m up to the return of its first write: the wire
\* buffer, its length, writeCount = 0, the first pass of the loop
TCPSendBegin(l, m, count, errno) ==
    LET buffer == WireFormatBuffer(m)
        r == RecvLinkOf(l)
        fs == IF r = 0 THEN frames
              ELSE [frames EXCEPT ![r] =
                      Append(@, [start |-> Len(wire[r]), msg |-> m, status |-> "pending",
                                 after |-> /\ Stats(r).receive_BadMessageLength > 0
                                           /\ pc[r] \notin {"drain", "drainBlocked"}])]
    IN
    /\ links[l].live /\ links[l].send = "_TCPSend" /\ pc[l] = "idle"
    /\ sends < MaxSends
    /\ sends' = sends + 1
    /\ WritePass(l, buffer, 0, NewCall(l, "send", m), fs, count, errno)

\* a later pass of the write loop of the running _TCPSend
TCPSendWrite(l, count, errno) ==
    /\ links[l].live /\ pc[l] = "send"
    /\ sends' = sends
    /\ WritePass(l, loc[l].buf, loc[l].cnt, call[l], frames, count, errno)

\* ------------------------------------------------------------ _linkIsEOF
\* what poll() and the one-byte peek can report for descriptor fd
PollResults(s, fd) == IF Readable(s, fd) THEN {"in", "error"} ELSE {"none", "in", "error"}

PeekResults(s, fd, pollRes) ==
    IF pollRes # "in" THEN {"none"}
    ELSE IF s[fd].rcvq # <<>> THEN {"one", "error"}
    ELSE IF s[fd].fin THEN {"zero", "error"}
    ELSE {"eagain", "error"}

\* a one-byte peek that takes "would block" for any other error
PeekIsEOF_WouldBlockIsError(peekRes) ==
    IF peekRes \in {"eagain", "error"} THEN TRUE
    ELSE peekRes = "zero"

\* recv(fd, &peekBuffer, 1, MSG_PEEK) under POLLIN: -1 with EAGAIN or
\* EWOULDBLOCK -> false (counted by the caller's Link); -1 otherwise ->
\* true; 0 -> true; one byte -> false
PeekIsEOF(peekRes) ==
    IF peekRes = "eagain" THEN FALSE
    ELSE IF peekRes = "error" THEN TRUE
    ELSE peekRes = "zero"

\* _linkIsEOF that takes a descriptor with no pending event for EOF
LinkIsEOF_NoEventIsEOF(pollRes, peekRes) ==
    IF pollRes = "error" THEN TRUE
    ELSE IF pollRes = "none" THEN TRUE
    ELSE PeekIsEOF(peekRes)

\* _linkIsEOF: poll error -> true; no event -> false; POLLIN and peek
\* would block -> false; peek error -> true; peek of zero bytes -> true;
\* otherwise false
LinkIsEOF(pollRes, peekRes) ==
    IF pollRes = "error" THEN TRUE
    ELSE IF pollRes = "none" THEN FALSE
    ELSE PeekIsEOF(peekRes)

\* ----------------------------------------------------------- _TCPReceive
\* The header peek: recv(MSG_PEEK) of fixedHeaderLength bytes, and what
\* follows from its result up to the next system call.
TCPReceivePeek(l, res) ==
    LET d == links[l].data
        fd == heap[d].fd
        readCount == KReadCount(sock, fd, FixedHeaderLength)
        header == SubSeq(sock[fd].rcvq, 1, readCount)
        c == NewCall(l, "recv", NullMessage)
        \* part of a header is a passing condition while the peer may still
        \* write, and a run meets it a bounded number of times; once the
        \* peer has closed it stays, and every peek finds it again
        isFault == res = "error"
                   \/ (0 < readCount /\ readCount < FixedHeaderLength /\ ~sock[fd].fin)
        \* wireFormatBuffer = parcBuffer_Allocate(fixedHeaderLength)
        lc == BufferAcquire(loc[l])
    IN
    /\ links[l].live /\ links[l].receive = "_TCPReceive" /\ pc[l] = "idle"
    /\ res \in {"error", "data"}
    /\ isFault => faults < MaxFaults
    /\ faults' = IF isFault THEN faults + 1 ELSE faults
    /\ UNCHANGED <<sock, links, ret, open, wire, frames, rcvd, sends>>
    /\ IF res = "error"
       THEN \* readCount == -1
            /\ heap' = Bump(heap, d, "receive_ReadError")
            /\ pc' = pc /\ loc' = [loc EXCEPT ![l] = BufferRelease(lc)]
            /\ call' = [call EXCEPT ![l] = [c EXCEPT !.outcome = "peekError"]]
       ELSE IF readCount = 0
       THEN /\ heap' = heap
            /\ pc' = [pc EXCEPT ![l] = "iseof"]
            /\ loc' = [loc EXCEPT ![l] = lc]
            /\ call' = [call EXCEPT ![l] = c]
       ELSE IF readCount # FixedHeaderLength
       THEN /\ heap' = Bump(heap, d, "receive_ReadHeaderFailure")
            /\ pc' = pc /\ loc' = [loc EXCEPT ![l] = BufferRelease(lc)]
            /\ call' = [call EXCEPT ![l] = [c EXCEPT !.outcome = "shortHeader"]]
       ELSE IF GetPacketLength(header) < FixedHeaderLength
       THEN /\ heap' = Bump(heap, d, "receive_BadMessageLength")
            /\ pc' = [pc EXCEPT ![l] = "drain"]
            /\ loc' = [loc EXCEPT ![l] = lc]
            /\ call' = [call EXCEPT ![l] = [c EXCEPT !.buffered = Len(sock[fd].rcvq)]]
       ELSE /\ heap' = heap
            /\ pc' = [pc EXCEPT ![l] = "read"]
            /\ loc' = [loc EXCEPT ![l] = [lc EXCEPT !.len = GetPacketLength(header)]]
            /\ call' = [call EXCEPT ![l] = c]

\* a zero-byte header peek flags the Link failed whatever _linkIsEOF says
PeekZeroEvents_Always(events, isEOF) == events \cup {"Error"}

\* readCount == 0: if (_linkIsEOF(...)) SetEvent(Error), else nothing
PeekZeroEvents(events, isEOF) == IF isEOF THEN events \cup {"Error"} ELSE events

\* readCount == 0: _linkIsEOF decides, then return NULL
TCPReceiveEOF(l, pollRes, peekRes) ==
    LET d == links[l].data
        fd == heap[d].fd
        isFault == \/ pollRes = "error"
                   \/ peekRes = "error"
                   \/ (pollRes = "in" /\ ~Readable(sock, fd))
        isEOF == LinkIsEOF(pollRes, peekRes)
    IN
    /\ links[l].live /\ pc[l] = "iseof"
    /\ pollRes \in PollResults(sock, fd)
    /\ peekRes \in PeekResults(sock, fd, pollRes)
    /\ isFault => faults < MaxFaults
    /\ faults' = IF isFault THEN faults + 1 ELSE faults
    /\ UNCHANGED <<sock, ret, open, wire, frames, rcvd, sends>>
    /\ heap' = IF pollRes = "in" /\ peekRes = "eagain"
               THEN Bump(heap, d, "receive_ReadWouldBlock") ELSE heap
    /\ links' = [links EXCEPT ![l] = [@ EXCEPT !.events = PeekZeroEvents(@, isEOF)]]
    /\ pc' = [pc EXCEPT ![l] = "idle"]
    /\ loc' = [loc EXCEPT ![l] = BufferRelease(@)]
    /\ call' = [call EXCEPT ![l] =
                  [@ EXCEPT !.outcome = IF isEOF THEN "peekZeroEOF" ELSE "peekZeroNotEOF",
                            !.eof = [closed |-> sock[fd].fin,
                                     queued |-> Len(sock[fd].rcvq),
                                     poll |-> pollRes, peek |-> peekRes]]]

\* the flush reads once, whatever the read returns
DrainContinues_Never(n) == FALSE

\* while (read(fd, trash, sizeof(trash)) == sizeof(trash))
DrainContinues(n) == n = TrashSize

\* One pass of the flush loop: read(fd, trash, sizeof(trash)); the loop
\* goes on while a read fills trash.  The descriptor of a data Link is never
\* given O_NONBLOCK by this module: with nothing queued the read either
\* returns at once (res "data", count 0: the flag was inherited from the
\* listener, as on BSD) or waits in the kernel (res "wait", pc
\* "drainBlocked") until bytes arrive, the peer closes or the read fails.
TCPReceiveDrain(l, res) ==
    LET d == links[l].data
        fd == heap[d].fd
        n == KReadCount(sock, fd, TrashSize)
    IN
    /\ links[l].live /\ pc[l] \in {"drain", "drainBlocked"}
    /\ res \in {"error", "wait", "data"}
    /\ (res = "error") => faults < MaxFaults
    /\ (res = "wait") => (pc[l] = "drain" /\ ReadWaits(sock, fd))
    /\ (res = "data" /\ pc[l] = "drainBlocked") => ~ReadWaits(sock, fd)
    /\ faults' = IF res = "error" THEN faults + 1 ELSE faults
    /\ UNCHANGED <<heap, links, ret, open, wire, frames, sends>>
    /\ CASE res = "error" ->
            /\ sock' = sock /\ rcvd' = rcvd
            /\ pc' = [pc EXCEPT ![l] = "idle"]
            /\ loc' = [loc EXCEPT ![l] = BufferRelease(@)]
            /\ call' = [call EXCEPT ![l] = [@ EXCEPT !.outcome = "badLength",
                                                     !.errno = "EIO"]]
         [] res = "wait" ->
            /\ pc' = [pc EXCEPT ![l] = "drainBlocked"]
            /\ UNCHANGED <<sock, rcvd, loc, call>>
         [] res = "data" ->
            /\ sock' = KConsume(sock, fd, n)
            /\ rcvd' = [rcvd EXCEPT ![l] = @ + n]
            /\ IF DrainContinues(n)
               THEN /\ pc' = [pc EXCEPT ![l] = "drain"]
                    /\ UNCHANGED <<loc, call>>
               ELSE /\ pc' = [pc EXCEPT ![l] = "idle"]
                    /\ loc' = [loc EXCEPT ![l] = BufferRelease(@)]
                    /\ call' = [call EXCEPT ![l] = [@ EXCEPT !.outcome = "badLength"]]

\* read(fd, &buffer[readCount], ...): the buffer after the read
ReadAt(buf, readCount, bytes) == SubSeq(buf, 1, readCount) \o bytes

\* The message is read: decode it and return it.  With a NULL decode result
\* ccnxTlvDictionary_GetSchemaVersion is handed NULL before the NULL check;
\* the call either stops the process there (crash) or goes on to count the
\* failure and return NULL.
Decode(l, h, buf, crash) ==
    LET d == links[l].data
        m == CreateFromWireFormatBuffer(buf)
    IN
    /\ crash => m = NullMessage
    /\ IF m # NullMessage
       THEN /\ heap' = h
            /\ Return(l, "ok", 0, m)
       ELSE IF crash
       THEN /\ heap' = h
            /\ pc' = [pc EXCEPT ![l] = "crashed"]
            /\ loc' = [loc EXCEPT ![l] = [@ EXCEPT !.buf = buf, !.cnt = Len(buf)]]
            /\ call' = [call EXCEPT ![l] = [@ EXCEPT !.outcome = "crashed"]]
       ELSE /\ heap' = Bump(h, d, "receive_DecodeFailed")
            /\ Return(l, "decodeFail", 0, NullMessage)

\* a first read that fails or returns zero has removed the bytes all the same
FirstReadConsumes_Always(res, n) == n

\* the bytes read(fd, buffer, messageLength) removes from the stream: none
\* when it returns -1 or 0
FirstReadConsumes(res, n) == IF res = "data" THEN n ELSE 0

\* The first consuming read, read(fd, buffer, messageLength), and what
\* follows from its result up to the next system call.
TCPReceiveRead(l, res, crash) ==
    LET d == links[l].data
        fd == heap[d].fd
        n == KReadCount(sock, fd, loc[l].len)
        bytes == SubSeq(sock[fd].rcvq, 1, n)
        buf == ReadAt(loc[l].buf, 0, bytes)
    IN
    /\ links[l].live /\ pc[l] = "read"
    /\ res \in {"error", "zero", "data"}
    /\ crash \in BOOLEAN
    /\ (res # "data") => faults < MaxFaults
    /\ faults' = IF res # "data" THEN faults + 1 ELSE faults
    /\ UNCHANGED <<links, ret, open, wire, frames, sends>>
    /\ IF res = "error"
       THEN /\ ~crash
            /\ heap' = Bump(heap, d, "receive_ReadError")
            /\ sock' = KConsume(sock, fd, FirstReadConsumes(res, n))
            /\ rcvd' = [rcvd EXCEPT ![l] = @ + FirstReadConsumes(res, n)]
            /\ Return(l, "readError", 0, NullMessage)
       ELSE IF res = "zero" \/ n = 0
       THEN /\ ~crash
            /\ heap' = heap
            /\ sock' = KConsume(sock, fd, FirstReadConsumes(res, n))
            /\ rcvd' = [rcvd EXCEPT ![l] = @ + FirstReadConsumes(res, n)]
            /\ Return(l, "readZero", 0, NullMessage)
       ELSE /\ sock' = KConsume(sock, fd, FirstReadConsumes(res, n))
            /\ rcvd' = [rcvd EXCEPT ![l] = @ + FirstReadConsumes(res, n)]
            /\ IF n < loc[l].len
               THEN /\ ~crash
                    /\ heap' = heap
                    /\ pc' = [pc EXCEPT ![l] = "loop"]
                    /\ loc' = [loc EXCEPT ![l] = [@ EXCEPT !.buf = buf, !.cnt = n]]
                    /\ call' = call
               ELSE Decode(l, heap, buf, crash)

\* One pass of the short-read loop, read(fd, &buffer[readCount],
\* messageLength - readCount), and what follows up to the next system call.
TCPReceiveLoop(l, res, crash) ==
    LET d == links[l].data
        fd == heap[d].fd
        n == KReadCount(sock, fd, loc[l].len - loc[l].cnt)
        bytes == SubSeq(sock[fd].rcvq, 1, n)
        buf == ReadAt(loc[l].buf, loc[l].cnt, bytes)
    IN
    /\ links[l].live /\ pc[l] = "loop"
    /\ res \in {"error", "data"}
    /\ crash \in BOOLEAN
    /\ (res = "error") => faults < MaxFaults
    /\ faults' = IF res = "error" THEN faults + 1 ELSE faults
    /\ UNCHANGED <<links, ret, open, wire, frames, sends>>
    /\ IF res = "error" \/ n = 0
       THEN \* count <= 0
            /\ ~crash
            /\ heap' = Bump(heap, d, "receive_ShortRead")
            /\ sock' = sock /\ rcvd' = rcvd
            /\ Return(l, "shortRead", 0, NullMessage)
       ELSE /\ sock' = KConsume(sock, fd, n)
            /\ rcvd' = [rcvd EXCEPT ![l] = @ + n]
            /\ IF loc[l].cnt + n < loc[l].len
               THEN /\ ~crash
                    /\ heap' = heap
                    /\ pc' = pc
                    /\ loc' = [loc EXCEPT ![l] = [@ EXCEPT !.buf = buf, !.cnt = @ + n]]
                    /\ call' = call
               ELSE Decode(l, heap, buf, crash)

\* ---------------------------------------------------------- the data path
\* The state after tcp://127.0.0.1:9695/listener was opened (Link 1), a
\* connection to it was opened (Link 2) and the listener accepted it (Link 3).
Established ==
    LET listenerData == [FreeData EXCEPT !.alloc = TRUE, !.fd = 1,
                                         !.myAddress = Address(Loopback, 9695)]
        clientData == [FreeData EXCEPT !.alloc = TRUE, !.fd = 2,
                                       !.myAddress = LocalAddressFor(Loopback, 2),
                                       !.peerAddress = Address(Loopback, 9695)]
        acceptedData == [FreeData EXCEPT !.alloc = TRUE, !.fd = 3,
                                         !.myAddress = Address(Loopback, 9695),
                                         !.peerAddress = LocalAddressFor(Loopback, 2)]
    IN
    /\ sock = [fd \in FDs |->
                 IF fd = 1 THEN [ClosedSock EXCEPT !.st = "listen", !.port = 9695,
                                                   !.nonblock = TRUE]
                 ELSE IF fd = 2 THEN [ClosedSock EXCEPT !.st = "conn", !.peer = 3]
                 ELSE IF fd = 3 THEN [ClosedSock EXCEPT !.st = "conn", !.peer = 2]
                 ELSE ClosedSock]
    /\ heap = [d \in LDs |->
                 IF d = 1 THEN listenerData
                 ELSE IF d = 2 THEN clientData
                 ELSE IF d = 3 THEN acceptedData
                 ELSE FreeData]
    /\ links = [l \in Links |->
                 IF l = 1
                 THEN ListenerLink(1, 1, CreateNameFromLinkData(listenerData, LookupsOK))
                 ELSE IF l = 2
                 THEN ConnLink(2, 2, CreateNameFromLinkData(clientData, LookupsOK), TRUE)
                 ELSE IF l = 3
                 THEN ConnLink(3, 3, CreateNameFromLinkData(acceptedData, LookupsOK), TRUE)
                 ELSE NoLink]
    /\ ret = [Ret("ReceiveListener", "ok", 3, 3, 3) EXCEPT !.taken = 1, !.added = 1]
    /\ open = NoOpen

InitIO ==
    /\ Established
    /\ pc = [l \in Links |-> "idle"]
    /\ loc = [l \in Links |-> NoLoc]
    /\ call = [l \in Links |-> NoCall]
    /\ wire = [l \in Links |-> <<>>]
    /\ frames = [l \in Links |-> <<>>]
    /\ rcvd = [l \in Links |-> 0]
    /\ sends = 0
    /\ faults = 0

\* One direction of the connection: the forwarder sends on the Link it
\* opened (Link 2) and receives on the Link the listener accepted (Link 3).
Senders == {2}
Receivers == {3}

\* The frames that travel to the receiving Link
StreamMessages == {MsgIoVec, MsgBadLength}

\* The receiving side: the peer's _TCPSend calls put frames on the stream in
\* writes of any positive size, _TCPReceive runs one system call at a time
\* in between, and the framework may close the sending Link between two
\* calls.  The system calls of _TCPReceive may fail.
Next ==
    \/ \E l \in Senders, m \in StreamMessages, count \in 1..(FixedHeaderLength + 2) :
          TCPSendBegin(l, m, count, "none")
    \/ \E l \in Senders, count \in 1..(FixedHeaderLength + 2) :
          TCPSendWrite(l, count, "none")
    \/ \E l \in Receivers, res \in {"error", "data"} : TCPReceivePeek(l, res)
    \/ \E l \in Receivers, pollRes \in {"none", "in", "error"},
          peekRes \in {"none", "one", "zero", "eagain", "error"} :
              TCPReceiveEOF(l, pollRes, peekRes)
    \/ \E l \in Receivers, res \in {"error", "wait", "data"} : TCPReceiveDrain(l, res)
    \/ \E l \in Receivers, res \in {"error", "zero", "data"}, crash \in BOOLEAN :
          TCPReceiveRead(l, res, crash)
    \/ \E l \in Receivers, res \in {"error", "data"}, crash \in BOOLEAN :
          TCPReceiveLoop(l, res, crash)
    \/ \E l \in Senders : TCPClose(l)

Spec == InitIO /\ [][Next]_vars

\* The sending side: _TCPSend calls whose writes may be short, write nothing
\* or fail, while the framework of the peer may close the receiving Link.
NextSend ==
    \/ \E l \in Senders, m \in Messages, count \in -1..(FixedHeaderLength + 2),
          errno \in {"none", "EPIPE", "EIO"} : TCPSendBegin(l, m, count, errno)
    \/ \E l \in Senders, count \in -1..(FixedHeaderLength + 2),
          errno \in {"none", "EPIPE", "EIO"} : TCPSendWrite(l, count, errno)
    \/ \E l \in Receivers : TCPClose(l)

SpecSend == InitIO /\ [][NextSend]_vars

NextLife ==
    \/ \E p \in Ports, st \in OpenConnectionSteps : TCPOpenConnection(p, st)
    \/ \E p \in Ports, st \in OpenListenerSteps : TCPOpenListener(p, st)
    \/ \E l \in Links, st \in ReceiveListenerSteps : TCPReceiveListener(l, st)
    \/ \E l \in Links : TCPClose(l)

SpecLife == Init /\ [][NextLife]_vars

\* The path segments a connection URI is made of in this model, and the URIs
Segment_listener == TCP_LISTENER_FLAG
Segment_Listener == <<"L", "i", "s", "t", "e", "n", "e", "r">>
Segment_name == LINK_NAME_SPECIFIER \o <<"n", "1">>
Segment_nameEmpty == LINK_NAME_SPECIFIER
Segment_localTrue == LOCAL_LINK_FLAG \o <<"t", "r", "u", "e">>
Segment_localFalse == LOCAL_LINK_FLAG \o <<"f", "a", "l", "s", "e">>
Segment_localTruex == LOCAL_LINK_FLAG \o <<"t", "r", "u", "e", "x">>
Segment_localFalsey == LOCAL_LINK_FLAG \o <<"f", "a", "l", "s", "e", "y">>
Segment_localMaybe == LOCAL_LINK_FLAG \o <<"m", "a", "y", "b", "e">>
Segment_bogus == <<"b", "o", "g", "u", "s">>

Segments ==
    {Segment_listener, Segment_Listener, Segment_name, Segment_nameEmpty,
     Segment_localTrue, Segment_localFalse, Segment_localTruex,
     Segment_localFalsey, Segment_localMaybe, Segment_bogus}

\* tcp://127.0.0.1:9695 (where a listener is up), tcp://127.0.0.1:9696 (a free
\* port), tcp://10.0.0.2:9695 (another host), and a URI with no authority
Authorities ==
    {Address(Loopback, 9695), Address(Loopback, 9696), Address("10.0.0.2", 9695),
     NoAddress}

URIs ==
    {[host |-> a.host, port |-> a.port, path |-> path] :
        a \in Authorities,
        path \in UNION {[1..n -> Segments] : n \in 0..MaxSegments}}

\* The state in which tcp://127.0.0.1:9695/listener is open (Link 1) and the
\* forwarder is about to open one of the URIs.
InitOpen ==
    LET listenerData == [FreeData EXCEPT !.alloc = TRUE, !.fd = 1,
                                         !.myAddress = Address(Loopback, 9695)]
    IN
    /\ sock = [fd \in FDs |->
                 IF fd = 1 THEN [ClosedSock EXCEPT !.st = "listen", !.port = 9695,
                                                   !.nonblock = TRUE]
                 ELSE ClosedSock]
    /\ heap = [d \in LDs |-> IF d = 1 THEN listenerData ELSE FreeData]
    /\ links = [l \in Links |->
                 IF l = 1
                 THEN ListenerLink(1, 1, CreateNameFromLinkData(listenerData, LookupsOK))
                 ELSE NoLink]
    /\ ret = Ret("OpenListener", "ok", 1, 1, 1)
    /\ \E uri \in URIs : open = [NoOpen EXCEPT !.uri = uri]
    /\ pc = [l \in Links |-> "idle"]
    /\ loc = [l \in Links |-> NoLoc]
    /\ call = [l \in Links |-> NoCall]
    /\ wire = [l \in Links |-> <<>>]
    /\ frames = [l \in Links |-> <<>>]
    /\ rcvd = [l \in Links |-> 0]
    /\ sends = 0
    /\ faults = 0

\* The forwarder opens the URI, any number of times; any call of the opener
\* may fail.
NextOpen == TCPOpen(open.uri)

SpecOpen == InitOpen /\ [][NextOpen]_vars

\* The state after tcp://127.0.0.1:9695/listener was opened (Link 1) and a
\* connection to it was opened (Link 2), which waits in the listener's queue.
Connected ==
    LET listenerData == [FreeData EXCEPT !.alloc = TRUE, !.fd = 1,
                                         !.myAddress = Address(Loopback, 9695)]
        clientData == [FreeData EXCEPT !.alloc = TRUE, !.fd = 2,
                                       !.myAddress = LocalAddressFor(Loopback, 2),
                                       !.peerAddress = Address(Loopback, 9695)]
    IN
    /\ sock = [fd \in FDs |->
                 IF fd = 1 THEN [ClosedSock EXCEPT !.st = "listen", !.port = 9695,
                                                   !.nonblock = TRUE,
                                                   !.backlog = <<[client |-> 2,
                                                                  data |-> <<>>]>>]
                 ELSE IF fd = 2 THEN [ClosedSock EXCEPT !.st = "conn"]
                 ELSE ClosedSock]
    /\ heap = [d \in LDs |->
                 IF d = 1 THEN listenerData
                 ELSE IF d = 2 THEN clientData
                 ELSE FreeData]
    /\ links = [l \in Links |->
                 IF l = 1
                 THEN ListenerLink(1, 1, CreateNameFromLinkData(listenerData, LookupsOK))
                 ELSE IF l = 2
                 THEN ConnLink(2, 2, CreateNameFromLinkData(clientData, LookupsOK), TRUE)
                 ELSE NoLink]
    /\ ret = Ret("OpenConnection", "ok", 2, 2, 2)
    /\ open = NoOpen

InitFair ==
    /\ Connected
    /\ pc = [l \in Links |-> "idle"]
    /\ loc = [l \in Links |-> NoLoc]
    /\ call = [l \in Links |-> NoCall]
    /\ wire = [l \in Links |-> <<>>]
    /\ frames = [l \in Links |-> <<>>]
    /\ rcvd = [l \in Links |-> 0]
    /\ sends = 0
    /\ faults = 0

\* the message of the end-to-end scenario (40 bytes, scaled down)
EndToEndMessage == MsgIoVec

\* one invocation of the listener's handler that meets no outside failure
Accept == \E l \in Links : TCPReceiveListener(l, "ok")

\* one system call of a _TCPReceive on the accepted Link, with any result
Receive ==
    \E l \in Receivers :
        \/ \E res \in {"error", "data"} : TCPReceivePeek(l, res)
        \/ \E pollRes \in {"none", "in", "error"},
              peekRes \in {"none", "one", "zero", "eagain", "error"} :
                  TCPReceiveEOF(l, pollRes, peekRes)
        \/ \E res \in {"error", "data"} : TCPReceiveDrain(l, res)
        \/ \E res \in {"error", "zero", "data"}, crash \in BOOLEAN :
              TCPReceiveRead(l, res, crash)
        \/ \E res \in {"error", "data"}, crash \in BOOLEAN : TCPReceiveLoop(l, res, crash)

\* The whole path: the client sends one frame over the connection, the
\* message of the scenario or one that declares a bad length, with
\* writes that may be short or fail, and may close once the connection is
\* accepted; the event loop runs the listener's handler while a connection
\* waits and _TCPReceive on the Link it registered, again and again.
NextFair ==
    \/ \E l \in Senders, m \in {EndToEndMessage, MsgBadLength},
          count \in -1..(FixedHeaderLength + 2), errno \in {"none", "EPIPE", "EIO"} :
              sends = 0 /\ TCPSendBegin(l, m, count, errno)
    \/ \E l \in Senders, count \in -1..(FixedHeaderLength + 2),
          errno \in {"none", "EPIPE", "EIO"} : TCPSendWrite(l, count, errno)
    \/ \E l \in Senders : TCPClose(l) /\ sock[LinkFd(l)].peer # 0
    \/ Accept
    \/ Receive

\* The event loop reports a readable descriptor until its handler has run:
\* a handler that stays enabled is run.
SpecFair == InitFair /\ [][NextFair]_vars /\ WF_vars(Accept) /\ WF_vars(Receive)

\* --------------------------------------------------- claims on _TCPSend
\* C2: whenever _TCPSend returns success the bytes its writes put on the
\* wire are exactly the bytes of the message, each once and in order,
\* whatever the sizes of the partial writes; while the call runs they are a
\* proper prefix of the message; a call that did not write every byte
\* returns -1.
C2_PartialWriteIdempotence ==
    \A l \in Links : (call[l].op = "send") =>
        LET buffer == WireFormatBuffer(call[l].msg) IN
        /\ call[l].wrote = SubSeq(buffer, 1, Len(call[l].wrote))
        /\ (call[l].outcome = "ok") => (call[l].result = 0 /\ call[l].wrote = buffer)
        /\ (call[l].outcome \in {"writeError", "zeroWrite"}) => call[l].result = -1
        /\ (call[l].outcome = "none") =>
              (pc[l] = "send" /\ Len(call[l].wrote) < Len(buffer)
                  /\ loc[l].cnt = Len(call[l].wrote))

\* a send of a two-segment message that succeeded after a short write
C2_Witness ==
    \E l \in Links :
        /\ call[l].op = "send" /\ call[l].outcome = "ok" /\ call[l].short
        /\ call[l].msg = MsgIoVec

\* C3 (as stated): whenever a write of _TCPSend returns -1, whatever the
\* error code, the call returns failure and the Link's Error event is set.
C3_WriteErrorSetsError ==
    \A l \in Links : (links[l].live /\ call[l].op = "send"
                        /\ call[l].outcome = "writeError") =>
        (call[l].result = -1 /\ "Error" \in links[l].events)

\* C4 (as stated): a write that transfers fewer bytes than requested
\* increments the short-write counter, and the call does not return failure
\* because of it.
C4_ShortWriteCounted ==
    \A l \in Links : (links[l].live /\ call[l].op = "send") =>
        /\ call[l].short =>
              Stats(l).receive_ShortWrite > call[l].stats0.receive_ShortWrite
        /\ call[l].outcome # "zeroWrite"

\* C4 (amended): a write that transfers at least one byte but fewer than
\* requested changes no counter and the loop goes on in the same call; a
\* write that transfers no byte increments the short-write counter once and
\* the call returns -1 without setting the Error event.
C4_ShortWriteAmended ==
    \A l \in Links : (links[l].live /\ call[l].op = "send") =>
        /\ (call[l].outcome = "zeroWrite") =>
              /\ call[l].result = -1
              /\ Stats(l).receive_ShortWrite = call[l].stats0.receive_ShortWrite + 1
              /\ links[l].events = call[l].events0
        /\ (call[l].outcome # "zeroWrite") =>
              Stats(l).receive_ShortWrite = call[l].stats0.receive_ShortWrite
        /\ (call[l].short /\ call[l].outcome = "none") => pc[l] = "send"

\* a call that wrote part of the message and then wrote nothing
C4_Witness ==
    \E l \in Links :
        /\ links[l].live /\ call[l].op = "send"
        /\ call[l].short /\ call[l].outcome = "zeroWrite"

\* ------------------------------------------------ claims on _TCPReceive
\* the end on the wire of the i-th frame sent to Link r
FrameEnd(r, i) ==
    IF i < Len(frames[r]) THEN frames[r][i + 1].start ELSE Len(wire[r])

\* a frame the codec encoded, sent by a _TCPSend that returned success
SentIntact(f) == ValidFrame(f.msg) /\ f.status = "ok"

\* the _TCPReceive call of Link r began at the first byte of frame f, has
\* consumed bytes and has returned
ReceivedFrom(r, f) ==
    /\ call[r].op = "recv" /\ call[r].start = f.start
    /\ pc[r] = "idle" /\ rcvd[r] > f.start

ReturnedIntact(r, f) ==
    /\ call[r].outcome = "ok"
    /\ call[r].msg # NullMessage
    /\ WireFormatBuffer(call[r].msg) = WireFormatBuffer(f.msg)

\* C1 (as stated): when _TCPSend of a message succeeded and its frame
\* reached the other end in whatever chunks, the _TCPReceive that reads the
\* frame returns a message built from exactly its bytes.
C1_RoundTrip ==
    \A r \in Links : \A i \in 1..Len(frames[r]) :
        (SentIntact(frames[r][i]) /\ ReceivedFrom(r, frames[r][i])) =>
            ReturnedIntact(r, frames[r][i])

NoFrameCut(r) ==
    \A i \in 1..Len(frames[r]) :
        (frames[r][i].start < rcvd[r]) =>
            (FrameEnd(r, i) <= rcvd[r] /\ frames[r][i].status # "pending")

C6_ErrorOnlyOnEOF ==
    \A r \in Links : (links[r].live /\ call[r].op = "recv" /\ call[r].outcome # "none") =>
        /\ (call[r].outcome = "peekZeroEOF") =>
              links[r].events = call[r].events0 \cup {"Error"}
        /\ (call[r].outcome # "peekZeroEOF") => links[r].events = call[r].events0

\* a zero-byte peek after the peer closed has flagged a Link that was not
\* flagged before
C6_Witness ==
    \E r \in Links :
        /\ links[r].live /\ call[r].op = "recv" /\ call[r].outcome = "peekZeroEOF"
        /\ "Error" \in links[r].events /\ "Error" \notin call[r].events0

\* C7 (as stated): after a zero-byte header peek _linkIsEOF returns true
\* when the peer has closed and no unread data remains, and false when the
\* peer is still open and no data is queued.
C7_EOFClassification ==
    \A r \in Links :
        (call[r].op = "recv" /\ call[r].outcome \in {"peekZeroEOF", "peekZeroNotEOF"}
            /\ call[r].eof.queued = 0) =>
            /\ call[r].eof.closed => call[r].outcome = "peekZeroEOF"
            /\ ~call[r].eof.closed => call[r].outcome = "peekZeroNotEOF"

\* C7 (amended): after a zero-byte header peek _linkIsEOF returns true when
\* the peer has closed and no unread data remains; when the peer is still
\* open and no data is queued it returns false provided neither poll nor the
\* one-byte peek fails (a peek that would block is no failure), and true
\* when one of them fails.
C7_EOFClassificationAmended ==
    \A r \in Links :
        (call[r].op = "recv" /\ call[r].outcome \in {"peekZeroEOF", "peekZeroNotEOF"}
            /\ call[r].eof.queued = 0) =>
            LET failed == call[r].eof.poll = "error" \/ call[r].eof.peek = "error" IN
            /\ call[r].eof.closed => call[r].outcome = "peekZeroEOF"
            /\ (~call[r].eof.closed /\ ~failed) => call[r].outcome = "peekZeroNotEOF"
            /\ (~call[r].eof.closed /\ failed) => call[r].outcome = "peekZeroEOF"

\* a zero-byte peek on an idle open connection was classified not EOF
C7_Witness ==
    \E r \in Links :
        /\ call[r].op = "recv" /\ call[r].outcome = "peekZeroNotEOF"
        /\ ~call[r].eof.closed /\ call[r].eof.queued = 0 /\ call[r].eof.poll = "none"

\* ------------------------------------------------ claims on the lifecycle
\* C8 (as stated): after a failed _TCPOpenConnection no Link is exposed, the
\* private state is freed and the descriptor the call created is closed.
C8_OpenConnectionCleanup ==
    (ret.op = "OpenConnection" /\ ret.step # "ok") =>
        /\ ret.link = 0
        /\ \A l \in LiveLinks : links[l].data # ret.data
        /\ ~heap[ret.data].alloc
        /\ (ret.fd # -1) => sock[ret.fd].st = "closed"

\* C9 (as stated): when cloning or registering the accepted Link fails, the
\* accepted descriptor is closed, the new private state is freed and no new
\* Link is exposed.
C9_AcceptCleanup ==
    (ret.op = "ReceiveListener" /\ ret.step \in {"clone", "addlink"}) =>
        /\ ret.link = 0
        /\ \A l \in LiveLinks : links[l].data # ret.data /\ links[l].eventFd # ret.fd
        /\ ~heap[ret.data].alloc
        /\ sock[ret.fd].st = "closed"

\* C10: every live Link's private state holds one open descriptor, no two
\* live Links hold the same descriptor or the same private state, a
\* descriptor yielded by accept differs from the descriptor of every other
\* live Link (the listener included), and _TCPClose closes the Link's
\* descriptor and frees its private state.
C10_DescriptorOwnership ==
    /\ \A l \in LiveLinks :
          /\ links[l].data \in LDs
          /\ heap[links[l].data].alloc
          /\ LinkFd(l) \in FDs
          /\ sock[LinkFd(l)].st # "closed"
          /\ links[l].eventFd = LinkFd(l)
    /\ \A l, k \in LiveLinks :
          l # k => (LinkFd(l) # LinkFd(k) /\ links[l].data # links[k].data)
    /\ (ret.op = "ReceiveListener" /\ ret.fd # -1) =>
          \A l \in LiveLinks : l # ret.link => LinkFd(l) # ret.fd
    /\ (ret.op = "Close") =>
          /\ sock[ret.fd].st = "closed"
          /\ ~heap[ret.data].alloc
          /\ ~links[ret.link].live

\* an accept has produced a third live Link beside the listener and the client
C10_Witness ==
    /\ ret.op = "ReceiveListener" /\ ret.step = "ok"
    /\ Cardinality(LiveLinks) = 3
    /\ \E l \in LiveLinks : links[l].kind = "listener"

\* C11: every call of _TCPReceiveListener takes at most one connection off
\* the listener's queue of pending connections and registers at most one new
\* Link, only for a connection it took; and it returns no message, whether
\* it succeeded or failed.
C11_OneAcceptPerInvocation ==
    ret.op = "ReceiveListener" =>
        /\ ret.taken \in {0, 1}
        /\ ret.added \in {0, 1}
        /\ ret.added <= ret.taken
        /\ (ret.step = "ok") <=> (ret.added = 1)
        /\ ret.msg = NullMessage

\* an accept has registered a Link while another connection still waits
C11_Witness ==
    /\ ret.op = "ReceiveListener" /\ ret.step = "ok"
    /\ ret.taken = 1 /\ ret.added = 1
    /\ links[ret.link].live
    /\ \E fd \in FDs : sock[fd].st = "listen" /\ sock[fd].backlog # <<>>

\* C12: a Link made by a passive open is not routable, has no send
\* operation and has the accept handler as its receive operation, from the
\* moment _TCPOpenListener returns it and through every later operation of
\* the module; it is never among the Links eligible to carry forwarded
\* messages.
C12_ListenerNotRoutable ==
    \A l \in LiveLinks :
        links[l].kind = "listener" =>
            /\ ~links[l].routable
            /\ l \notin RoutableLinks
            /\ links[l].send = "NULL"
            /\ links[l].receive = "_TCPReceiveListener"

\* a listener has accepted a connection: the new Link is routable, the
\* listener still is not
C12_Witness ==
    /\ ret.op = "ReceiveListener" /\ ret.step = "ok"
    /\ ret.link \in RoutableLinks
    /\ \E l \in LiveLinks : links[l].kind = "listener" /\ l \notin RoutableLinks

Opened == open.errno # "none" \/ open.called # "none"

\* the segments the interface names: listener, name%3D<id> with an id, and
\* local%3Dtrue or local%3Dfalse (keywords in either case)
AllowedSegment(token) ==
    \/ StrCaseCmp(token, TCP_LISTENER_FLAG)
    \/ /\ Len(token) > Len(LINK_NAME_SPECIFIER)
       /\ StrCaseCmp(SubSeq(token, 1, Len(LINK_NAME_SPECIFIER)), LINK_NAME_SPECIFIER)
       /\ \A i \in 1..Len(token) : token[i] # " "
    \/ \E v \in {<<"t", "r", "u", "e">>, <<"f", "a", "l", "s", "e">>} :
          StrCaseCmp(token, LOCAL_LINK_FLAG \o v)

\* C14: if any path segment of the connection URI is not one of listener,
\* name%3D<id>, local%3D<true|false>, wherever it stands among the segments,
\* _TCPOpen returns no Link with errno EINVAL, and neither opener was called
\* (no socket was created).
C14_BadSegmentFailsEarly ==
    (Opened /\ \E i \in 1..Len(open.uri.path) : ~AllowedSegment(open.uri.path[i])) =>
        /\ open.result = 0 /\ open.errno = "EINVAL"
        /\ open.called = "none" /\ open.created = 0

\* the Link the last _TCPOpen returned for a connection, and its private data
Returned == links[open.result]
ReturnedData == heap[Returned.data]
OpenedConnection == Opened /\ open.called = "_TCPOpenConnection" /\ open.result # 0

\* the URI carries the segment local%3D<value>
Carries(value) ==
    \E i \in 1..Len(open.uri.path) : StrCaseCmp(open.uri.path[i], LOCAL_LINK_FLAG \o value)

\* the URI has no segment that starts with local%3D
NoLocalFlag ==
    \A i \in 1..Len(open.uri.path) :
        ~StrNCaseCmp(open.uri.path[i], LOCAL_LINK_FLAG, Len(LOCAL_LINK_FLAG))

AddressesEqual == ReturnedData.myAddress.host = ReturnedData.peerAddress.host

\* C15: a Link returned by _TCPOpen for a connection is local when its local
\* and peer addresses are equal unless the URI carries local=false (then it
\* is non-local), is local when the URI carries local=true even though the
\* addresses differ, and is non-local when the addresses differ and no local
\* flag is given.
C15_Locality ==
    OpenedConnection =>
        /\ (AddressesEqual /\ ~Carries(<<"f", "a", "l", "s", "e">>)) => IsLocal(Returned)
        /\ (AddressesEqual /\ Carries(<<"f", "a", "l", "s", "e">>)) => ~IsLocal(Returned)
        /\ (~AddressesEqual /\ Carries(<<"t", "r", "u", "e">>)) => IsLocal(Returned)
        /\ (~AddressesEqual /\ NoLocalFlag) => ~IsLocal(Returned)

\* the name%3D segments of the URI, and the id such a segment carries
NameSegments ==
    {i \in 1..Len(open.uri.path) :
        StrNCaseCmp(open.uri.path[i], LINK_NAME_SPECIFIER, Len(LINK_NAME_SPECIFIER))}

IdOf(token) == SubSeq(token, Len(LINK_NAME_SPECIFIER) + 1, Len(token))

\* the outcome of the lookup of an endpoint of the returned Link
LocalLookup == GetNameInfo(ReturnedData.myAddress, open.lookup.myFails)
PeerLookup == GetNameInfo(ReturnedData.peerAddress, open.lookup.peerFails)

\* C17: a Link opened with a name%3D<id> segment is named <id>; otherwise
\* its name is tcp://<localhost>:<localport><-><peerhost>:<peerport> when
\* both the local and the peer lookup succeed, tcp://<localhost>:<localport>
\* when only the local lookup succeeds, and tcp://Unknown when both fail.
C17_NameDerivation ==
    (Opened /\ open.result # 0) =>
        /\ \A i \in NameSegments : Returned.name = IdOf(open.uri.path[i])
        /\ (NameSegments = {} /\ LocalLookup # <<>> /\ PeerLookup # <<>>) =>
              Returned.name = <<"tcp", "://", ReturnedData.myAddress.host, ":",
                                ToString(ReturnedData.myAddress.port), "<->",
                                ReturnedData.peerAddress.host, ":",
                                ToString(ReturnedData.peerAddress.port)>>
        /\ (NameSegments = {} /\ LocalLookup # <<>> /\ PeerLookup = <<>>) =>
              Returned.name = <<"tcp", "://", ReturnedData.myAddress.host, ":",
                                ToString(ReturnedData.myAddress.port)>>
        /\ (NameSegments = {} /\ LocalLookup = <<>> /\ PeerLookup = <<>>) =>
              Returned.name = <<"tcp", "://", "Unknown">>

\* _TCPOpen has returned a connection named by its two endpoints: the local
\* one is the port the kernel chose, the peer is the listener of the URI
C17_Witness ==
    /\ OpenedConnection /\ NameSegments = {}
    /\ Returned.name = <<"tcp", "://", "127.0.0.1", ":", "49154", "<->",
                         "127.0.0.1", ":", "9695">>

\* ------------------------------------------- further claims on the stream
\* C18: whenever _TCPSend returns failure, none of that message's bytes
\* have been put on the wire, so the bytes the peer sees are those of the
\* frames whose send succeeded or is still running.
C18_FailedSendLeavesNothing ==
    /\ \A l \in Links :
          (call[l].op = "send" /\ call[l].outcome \in {"writeError", "zeroWrite"}) =>
              (call[l].result = -1 /\ call[l].wrote = <<>>)
    /\ \A r \in Links : \A i \in 1..Len(frames[r]) :
          (frames[r][i].status = "fail") => FrameEnd(r, i) = frames[r][i].start

\* position n of the stream of Link r is where a frame starts or where the
\* last complete frame ends
FrameBoundary(r, n) ==
    \/ n = 0
    \/ \E i \in 1..Len(frames[r]) : frames[r][i].start = n
    \/ n = Len(wire[r]) /\ frames[r] # <<>> /\ frames[r][Len(frames[r])].status # "pending"

\* C19: if the peer sends only well-formed frames, then whenever a
\* _TCPReceive call returns, with or without a message, the number of bytes
\* consumed from the stream so far is the length of a whole number of
\* leading frames, so the next header peek starts at a frame boundary.
C19_ReceiveKeepsFrameBoundary ==
    \A r \in Links :
        (call[r].op = "recv" /\ call[r].outcome # "none" /\ pc[r] = "idle"
            /\ \A i \in 1..Len(frames[r]) : ValidFrame(frames[r][i].msg)) =>
                FrameBoundary(r, rcvd[r])

\* ------------------------------------------------- claims on the whole path
\* the client's _TCPSend of the message has returned success and its frame
\* waits on the connection, which the listener has not accepted yet
SentBeforeAccept ==
    /\ links[2].live /\ call[2].op = "send" /\ call[2].outcome = "ok"
    /\ call[2].msg = EndToEndMessage
    /\ sock[1].backlog # <<>>
    /\ Head(sock[1].backlog).data = WireFormatBuffer(EndToEndMessage)

\* a _TCPReceive on the Link the listener registered has returned a message
\* of the wire length of the one sent
Delivered ==
    \E r \in Receivers :
        /\ links[r].live /\ r \in RoutableLinks
        /\ call[r].op = "recv" /\ call[r].outcome = "ok"
        /\ Len(WireFormatBuffer(call[r].msg)) = Len(WireFormatBuffer(EndToEndMessage))

C20_PeerCloseDetected ==
    \A r \in Receivers :
        (links[r].live /\ sock[LinkFd(r)].fin) ~>
            (links[r].live /\ ("Error" \in links[r].events \/ pc[r] = "crashed"))

\* C21 (as stated): the flush that _TCPReceive runs after a bad declared
\* length never waits for further data, whatever amount was buffered, an
\* exact multiple of the size of trash included, and when it has returned
\* without a failed read it has discarded the bytes buffered at the peek and
\* no others.
C21_BoundedDrain ==
    \A r \in Links :
        /\ pc[r] # "drainBlocked"
        /\ (/\ links[r].live /\ pc[r] = "idle" /\ call[r].op = "recv"
            /\ call[r].outcome = "badLength" /\ call[r].errno = "none") =>
               rcvd[r] - call[r].start = call[r].buffered

\* the outcomes of a _TCPReceive call that ends in its peek phase
PeekPhaseOutcomes == {"peekError", "peekZeroEOF", "peekZeroNotEOF", "shortHeader"}

\* the _TCPReceive call of Link r has returned in its peek phase: it
\* consumed nothing and returned no message, and a short peek counted one
\* header read failure
PeekConsumedNothing(r) ==
    (call[r].op = "recv" /\ pc[r] = "idle" /\ call[r].outcome \in PeekPhaseOutcomes) =>
        /\ rcvd[r] = call[r].start
        /\ call[r].msg = NullMessage
        /\ (call[r].outcome = "shortHeader") =>
              Stats(r).receive_ReadHeaderFailure =
                 (call[r].stats0.receive_ReadHeaderFailure + 1) % StatsModulus

\* C22 (as stated): a _TCPReceive call that ends in the peek phase (peek
\* error, zero-byte peek, short peek) removes no byte and returns no message,
\* a short peek counts one header read failure, and the frame whose header
\* was peeked short is returned intact by a later call once it has wholly
\* arrived: the first call that consumes bytes of the stream after a short
\* peek at its first frame returns that frame.
C22_PeekConsumesNothing ==
    \A r \in Links :
        /\ PeekConsumedNothing(r)
        /\ \A i \in 1..Len(frames[r]) :
              (/\ frames[r][i].start = 0 /\ SentIntact(frames[r][i])
               /\ ReceivedFrom(r, frames[r][i])
               /\ call[r].stats0.receive_ReadHeaderFailure > 0) =>
                  ReturnedIntact(r, frames[r][i])

\* the outcomes of a _TCPReceive call whose first consuming read returned
\* -1 or 0
SoftReadOutcomes == {"readError", "readZero"}

\* a frame the codec encoded, wholly sent, begins at the read position of
\* Link r
FrameWaits(r, f) == SentIntact(f) /\ f.start = rcvd[r]

\* One step of Link r in the case of C23: the step that returns from a
\* failed first read; the step that begins the next call while the frame
\* waits; the step that ends the first read of a call on a waiting frame.
FailsSoftlyStep(r) ==
    /\ (pc[r] = "read" /\ pc'[r] = "idle" /\ call'[r].outcome \in SoftReadOutcomes) =>
          /\ call'[r].msg = NullMessage
          /\ rcvd'[r] = rcvd[r]
          /\ sock'[LinkFd(r)].rcvq = sock[LinkFd(r)].rcvq
    /\ \A i \in 1..Len(frames[r]) :
          /\ (/\ pc[r] = "idle" /\ call[r].op = "recv"
              /\ call[r].outcome \in SoftReadOutcomes
              /\ FrameWaits(r, frames[r][i])
              /\ call'[r] # call[r] /\ faults' = faults) =>
                 /\ pc'[r] = "read"
                 /\ call'[r].start = frames[r][i].start
                 /\ loc'[r].len = Len(WireFormatBuffer(frames[r][i].msg))
                 /\ rcvd'[r] = rcvd[r]
          /\ (/\ pc[r] = "read" /\ call[r].start = rcvd[r]
              /\ FrameWaits(r, frames[r][i])
              /\ pc'[r] # "read" /\ faults' = faults) =>
                 /\ pc'[r] = "idle" /\ call'[r].outcome = "ok"
                 /\ WireFormatBuffer(call'[r].msg) = WireFormatBuffer(frames[r][i].msg)
                 /\ rcvd'[r] = rcvd[r] + Len(WireFormatBuffer(frames[r][i].msg))

\* C23: when the header peek of _TCPReceive succeeded with a valid declared
\* length and the first consuming read returns -1 or 0, the call returns no
\* message and leaves every byte of the frame in the stream; a later call
\* whose system calls do not fail peeks the same header at the same position
\* and, the frame being there, its first read returns the frame intact.
C23_FirstReadFailsSoftly == [][\A r \in Links : FailsSoftlyStep(r)]_vars

\* a first read has failed softly on a valid frame that has wholly arrived
\* and still begins at the read position
C23_Witness ==
    \E r \in Links : \E i \in 1..Len(frames[r]) :
        /\ links[r].live /\ pc[r] = "idle" /\ call[r].op = "recv"
        /\ call[r].outcome \in SoftReadOutcomes
        /\ call[r].start = frames[r][i].start
        /\ FrameWaits(r, frames[r][i])
        /\ Len(sock[LinkFd(r)].rcvq) >= Len(WireFormatBuffer(frames[r][i].msg))

\* the _TCPReceive call of Link r has returned from its _linkIsEOF
EOFDecided(r) ==
    /\ call[r].op = "recv" /\ pc[r] = "idle"
    /\ call[r].outcome \in {"peekZeroEOF", "peekZeroNotEOF"}

\* C24: _linkIsEOF consumes no byte of the stream and returns: false when
\* poll reports no event; false when poll reports POLLIN and the one-byte
\* peek would block; true when the peek returns zero bytes; true when the
\* peek fails with another error; false when the peek returns one byte.
C24_EOFDecisionTable ==
    \A r \in Links :
        EOFDecided(r) =>
            LET isEOF == call[r].outcome = "peekZeroEOF"
                poll == call[r].eof.poll
                peek == call[r].eof.peek
            IN
            /\ rcvd[r] = call[r].start
            /\ (poll = "none") => ~isEOF
            /\ (poll = "in" /\ peek = "eagain") => ~isEOF
            /\ (poll = "in" /\ peek = "zero") => isEOF
            /\ (poll = "in" /\ peek = "error") => isEOF
            /\ (poll = "in" /\ peek = "one") => ~isEOF

\* _linkIsEOF found the descriptor ready and the peek would block: the
\* zero-byte read was a plain empty read, and the Link is not flagged
C24_Witness ==
    \E r \in Links :
        /\ links[r].live /\ EOFDecided(r)
        /\ call[r].eof.poll = "in" /\ call[r].eof.peek = "eagain"
        /\ call[r].outcome = "peekZeroNotEOF"
        /\ "Error" \notin links[r].events

\* C25 (as stated): when the codec fails to decode a frame that _TCPReceive
\* has wholly read, the call returns: it does not crash, it counts exactly
\* one decode failure, it returns the NULL decode result, and the bytes of
\* the frame stay consumed.
C25_DecodeFailure ==
    \A r \in Links :
        (call[r].op = "recv" /\ call[r].outcome \in {"decodeFail", "crashed"}) =>
            /\ pc[r] = "idle" /\ call[r].outcome = "decodeFail"
            /\ call[r].msg = NullMessage
            /\ Stats(r).receive_DecodeFailed = call[r].stats0.receive_DecodeFailed + 1
            /\ rcvd[r] > call[r].start

\* ------------------------------------------------ claims on the counters
\* counter k went from old to new by one ++ (on the counter whose width the
\* model keeps the increment wraps)
Incremented(k, old, new) ==
    IF k = "receive_ReadHeaderFailure"
    THEN new = (old + 1) % StatsModulus
    ELSE new = old + 1

\* the counters that differ between two values of _stats
CountersChanged(old, new) == {k \in DOMAIN old : new[k] # old[k]}

\* the call of Link r, running or returned, has so far incremented at most
\* one counter, by one, and none when it returned a message or a
\* successful send
CallCounters(r) ==
    (links[r].live /\ call[r].op \in {"send", "recv"}) =>
        \/ Stats(r) = call[r].stats0
        \/ /\ call[r].outcome # "ok"
           /\ \E k \in DOMAIN Stats(r) :
                 /\ CountersChanged(call[r].stats0, Stats(r)) = {k}
                 /\ Incremented(k, call[r].stats0[k], Stats(r)[k])

\* a step changes the counters of Link r only as a step of a _TCPSend or
\* _TCPReceive call on r, by one ++ of one counter, and then changes the
\* counters of no other Link
CountersStep(r) ==
    (links[r].live /\ links'[r].live /\ links'[r].data = links[r].data) =>
        \/ Stats(r)' = Stats(r)
        \/ /\ \E k \in DOMAIN Stats(r) :
                 /\ CountersChanged(Stats(r), Stats(r)') = {k}
                 /\ Incremented(k, Stats(r)[k], Stats(r)'[k])
           /\ call'[r].op \in {"send", "recv"}
           /\ pc[r] # "idle" \/ call'[r] # call[r]
           /\ \A q \in Links \ {r} :
                 (links[q].live /\ links'[q].live) => Stats(q)' = Stats(q)

AfterSocketSteps == {"sockopt", "fcntlget", "fcntlset", "bind", "listen", "create"}

\* C27: when a step of _TCPOpenListener after socket() fails (socket
\* options, reading or setting the non-blocking flag, bind, listen, Link
\* creation), on return the descriptor is closed, the private state is freed
\* and no Link is created; a listener Link is returned only by a call in
\* which every step succeeded, on a non-blocking socket that is bound and
\* listening.
C27_OpenListenerCleanup ==
    (ret.op = "OpenListener") =>
        /\ (ret.step \in AfterSocketSteps) =>
              /\ ret.link = 0
              /\ ret.fd # -1 /\ sock[ret.fd].st = "closed"
              /\ ~heap[ret.data].alloc
              /\ \A l \in LiveLinks : links[l].data # ret.data /\ links[l].eventFd # ret.fd
        /\ (ret.link # 0) =>
              /\ ret.step = "ok"
              /\ links[ret.link].live /\ links[ret.link].data = ret.data
              /\ links[ret.link].eventFd = ret.fd
              /\ sock[ret.fd].st = "listen" /\ sock[ret.fd].nonblock
              /\ sock[ret.fd].port = heap[ret.data].myAddress.port

\* a passive open has failed at bind, the port being held by a live
\* listener, and left its descriptor closed
C27_Witness ==
    /\ ret.op = "OpenListener" /\ ret.step = "bind"
    /\ ret.fd # -1 /\ sock[ret.fd].st = "closed"
    /\ \E l \in LiveLinks : links[l].kind = "listener"

TypeOK ==
    /\ \A fd \in FDs : sock[fd].st \in {"closed", "open", "listen", "conn"}
    /\ \A d \in LDs : heap[d].fd \in FDs \cup {-1}
    /\ \A l \in Links : links[l].kind \in {"none", "listener", "conn"}

====
